---- MODULE Spec2Model ----
(***************************************************************************)
(* A model of Xapian::TfIdfWeight (xapian-core/weight/tfidfweight.cc).     *)
(*                                                                         *)
(* Numbers.  A C++ double is modelled as a fixed-point integer: the real   *)
(* value r is the integer r * Scale.  Xapian::termcount and                *)
(* Xapian::doccount are unsigned 32-bit integers; the one place where the  *)
(* code multiplies two of them (get_wdfn, SQUARE) is modelled with its     *)
(* 32-bit wrap-around.  TLC's own integers are 32-bit signed, so the       *)
(* sample inputs are chosen such that every value the code produces is     *)
(* representable.                                                          *)
(*                                                                         *)
(* Objects.  A TfIdfWeight object is a record with alive = TRUE; a         *)
(* constructor call that throws yields a record with alive = FALSE and     *)
(* the name of the exception.  The members wqf_factor and idfn are not     *)
(* initialised by any constructor; a member that was never written is the  *)
(* empty sequence, a written one is <<value>>, and reading a member that   *)
(* was never written yields any value of Indeterminate.                    *)
(***************************************************************************)
EXTENDS Integers, Sequences, FiniteSets, TLC

VARIABLES w, peer, corpus, wire, init_calls, last

vars == <<w, peer, corpus, wire, init_calls, last>>

(***************************************************************************)
(* Bounds of the model.                                                    *)
(***************************************************************************)
MaxNormalsLen == 4
MaxCollectionSize == 4
MaxWqf == 2
MaxWdf == 3
MaxDocLen == 3
MaxInits == 1
DoubleWidth == 2
MaxTrailing == 1

(***************************************************************************)
(* Fixed-point doubles.                                                    *)
(***************************************************************************)
Scale == 10 * 10 * 10

ToDouble(n) == n * Scale

\* a * b for doubles, computed without exceeding the product's own size.
FMul(a, b) ==
    LET a1 == a \div Scale
        a0 == a % Scale
        b1 == b \div Scale
        b0 == b % Scale
    IN  a1 * b1 * Scale + a1 * b0 + a0 * b1 + ((a0 * b0) \div Scale)

\* a / b for doubles, b # 0.
FDiv(a, b) ==
    LET n == IF b < 0 THEN 0 - a ELSE a
        d == IF b < 0 THEN 0 - b ELSE b
    IN  (n \div d) * Scale + (((n % d) * Scale) \div d)

\* The 16-bit halves of the product of two 16-bit numbers.
Mul16(x, y) ==
    LET p1 == (x \div 256) * y
        p0 == (x % 256) * y
        lo == (p1 % 256) * 256 + (p0 % 65536)
    IN  <<(p1 \div 256) + (p0 \div 65536) + (lo \div 65536), lo % 65536>>

\* a * b in Xapian::termcount (unsigned, 32 bits): the product modulo 2^32,
\* as its two 16-bit halves.
MulTermcount(a, b) ==
    LET ll == Mul16(a % 65536, b % 65536)
        hl == Mul16(a \div 65536, b % 65536)
        lh == Mul16(a % 65536, b \div 65536)
    IN  <<(ll[1] + hl[2] + lh[2]) % 65536, ll[2]>>

\* The conversion of a termcount, given by its halves, to double.
TermcountToDouble(t) == ToDouble(t[1] * 65536 + t[2])

Ln2 == (693 * Scale) \div 1000

\* ln on [1, 2): 2 * (z + z^3/3 + z^5/5 + z^7/7) with z = (x - 1) / (x + 1).
LnSeries(x) ==
    LET z == FDiv(x - Scale, x + Scale)
        z2 == FMul(z, z)
        z3 == FMul(z, z2)
        z5 == FMul(z3, z2)
        z7 == FMul(z5, z2)
    IN  2 * (z + (z3 \div 3) + (z5 \div 5) + (z7 \div 7))

\* std::log of a positive double.
RECURSIVE Ln(_)
Ln(x) ==
    IF x >= 2 * Scale THEN Ln2 + Ln(x \div 2)
    ELSE IF x < Scale THEN Ln(2 * x) - Ln2
    ELSE LnSeries(x)

(***************************************************************************)
(* The enumerations of the class and the statistics flags.                 *)
(***************************************************************************)
wdf_norm == [NONE |-> 1, BOOLEAN |-> 2, SQUARE |-> 3, LOG |-> 4,
             PIVOTED |-> 5, LOG_AVERAGE |-> 6]

idf_norm == [NONE |-> 1, TFIDF |-> 2, SQUARE |-> 3, FREQ |-> 4,
             PROB |-> 5, PIVOTED |-> 6]

wt_norm == [NONE |-> 1]

WdfNorms == {wdf_norm.NONE, wdf_norm.BOOLEAN, wdf_norm.SQUARE, wdf_norm.LOG,
             wdf_norm.PIVOTED, wdf_norm.LOG_AVERAGE}

IdfNorms == {idf_norm.NONE, idf_norm.TFIDF, idf_norm.SQUARE, idf_norm.FREQ,
             idf_norm.PROB, idf_norm.PIVOTED}

WtNorms == {wt_norm.NONE}

Stats == {"TERMFREQ", "COLLECTION_SIZE", "WDF", "WDF_MAX", "WQF",
          "AVERAGE_LENGTH", "DOC_LENGTH", "DOC_LENGTH_MIN", "DOC_LENGTH_MAX",
          "UNIQUE_TERMS"}

(***************************************************************************)
(* Construction.                                                           *)
(***************************************************************************)
NUL == "NUL"

\* strchr(s, c) != NULL: the terminating NUL is part of the string searched.
StrChr(s, c) == c = NUL \/ \E i \in 1..Len(s) : s[i] = c

Throw(e) == [alive |-> FALSE, error |-> e]

NoObject == [alive |-> FALSE, error |-> "none"]

\* The need_stat calls of the constructor taking a normalization string.
NeedStatNormals(normals) ==
    (IF normals[2] # "n" THEN {"TERMFREQ", "COLLECTION_SIZE"} ELSE {})
    \cup {"WDF", "WDF_MAX", "WQF"}
    \cup (IF normals[1] = "P" \/ normals[2] = "P"
          THEN {"AVERAGE_LENGTH", "DOC_LENGTH", "DOC_LENGTH_MIN"} ELSE {})
    \cup (IF normals[1] = "L"
          THEN {"DOC_LENGTH", "DOC_LENGTH_MIN", "DOC_LENGTH_MAX", "UNIQUE_TERMS"}
          ELSE {})

WdfNormOfChar(c) ==
    CASE c = "b" -> wdf_norm.BOOLEAN
      [] c = "s" -> wdf_norm.SQUARE
      [] c = "l" -> wdf_norm.LOG
      [] c = "P" -> wdf_norm.PIVOTED
      [] c = "L" -> wdf_norm.LOG_AVERAGE
      [] OTHER -> wdf_norm.NONE

\* IdfNormOfChar with 'p' taken for 'P'.
IdfNormOfCharCaseBlind(c) ==
    CASE c = "n" -> idf_norm.NONE
      [] c = "s" -> idf_norm.SQUARE
      [] c = "f" -> idf_norm.FREQ
      [] c = "P" \/ c = "p" -> idf_norm.PIVOTED
      [] OTHER -> idf_norm.TFIDF

IdfNormOfChar(c) ==
    CASE c = "n" -> idf_norm.NONE
      [] c = "s" -> idf_norm.SQUARE
      [] c = "f" -> idf_norm.FREQ
      [] c = "P" -> idf_norm.PIVOTED
      [] c = "p" -> idf_norm.PROB
      [] OTHER -> idf_norm.TFIDF

NormalsInvalid(normals) ==
    \/ Len(normals) # 3
    \/ ~StrChr(<<"n", "b", "s", "l", "P", "L">>, normals[1])
    \/ ~StrChr(<<"n", "t", "p", "f", "s", "P">>, normals[2])
    \/ ~StrChr(<<"n">>, normals[3])

\* TfIdfWeight(const std::string& normals, double slope, double delta)
TfIdfWeightNormals(normals, slope, delta) ==
    IF NormalsInvalid(normals) THEN Throw("InvalidArgumentError")
    ELSE IF slope <= 0 THEN Throw("InvalidArgumentError")
    ELSE IF delta <= 0 THEN Throw("InvalidArgumentError")
    ELSE [alive |-> TRUE,
          wdf_norm_ |-> WdfNormOfChar(normals[1]),
          idf_norm_ |-> IdfNormOfChar(normals[2]),
          wt_norm_ |-> wt_norm.NONE,
          param_slope |-> slope,
          param_delta |-> delta,
          stats_need |-> NeedStatNormals(normals),
          wqf_factor |-> <<>>,
          idfn |-> <<>>]

\* TfIdfWeight(const std::string& normals)
TfIdfWeightNormalsDefault(normals) ==
    TfIdfWeightNormals(normals, (2 * Scale) \div 10, Scale)

\* NeedStatEnums without the idf test of the pivoted rule.
NeedStatEnumsWdfOnly(wdf_normalization, idf_normalization) ==
    (IF idf_normalization # idf_norm.NONE
     THEN {"TERMFREQ", "COLLECTION_SIZE"} ELSE {})
    \cup {"WDF", "WDF_MAX", "WQF"}
    \cup (IF wdf_normalization = wdf_norm.PIVOTED
          THEN {"AVERAGE_LENGTH", "DOC_LENGTH", "DOC_LENGTH_MIN"} ELSE {})
    \cup (IF wdf_normalization = wdf_norm.LOG_AVERAGE
          THEN {"DOC_LENGTH", "DOC_LENGTH_MIN", "DOC_LENGTH_MAX", "UNIQUE_TERMS"}
          ELSE {})

\* The need_stat calls of the constructor taking the enum values.
NeedStatEnums(wdf_normalization, idf_normalization) ==
    (IF idf_normalization # idf_norm.NONE
     THEN {"TERMFREQ", "COLLECTION_SIZE"} ELSE {})
    \cup {"WDF", "WDF_MAX", "WQF"}
    \cup (IF wdf_normalization = wdf_norm.PIVOTED
             \/ idf_normalization = idf_norm.PIVOTED
          THEN {"AVERAGE_LENGTH", "DOC_LENGTH", "DOC_LENGTH_MIN"} ELSE {})
    \cup (IF wdf_normalization = wdf_norm.LOG_AVERAGE
          THEN {"DOC_LENGTH", "DOC_LENGTH_MIN", "DOC_LENGTH_MAX", "UNIQUE_TERMS"}
          ELSE {})

\* TfIdfWeight(wdf_norm, idf_norm, wt_norm, double slope, double delta)
TfIdfWeightEnums(wdf_normalization, idf_normalization, wt_normalization, slope, delta) ==
    IF slope <= 0 THEN Throw("InvalidArgumentError")
    ELSE IF delta <= 0 THEN Throw("InvalidArgumentError")
    ELSE [alive |-> TRUE,
          wdf_norm_ |-> wdf_normalization,
          idf_norm_ |-> idf_normalization,
          wt_norm_ |-> wt_normalization,
          param_slope |-> slope,
          param_delta |-> delta,
          stats_need |-> NeedStatEnums(wdf_normalization, idf_normalization),
          wqf_factor |-> <<>>,
          idfn |-> <<>>]

\* TfIdfWeight(wdf_norm, idf_norm, wt_norm)
TfIdfWeightEnumsDefault(wdf_normalization, idf_normalization, wt_normalization) ==
    TfIdfWeightEnums(wdf_normalization, idf_normalization, wt_normalization,
                     (2 * Scale) \div 10, Scale)

\* TfIdfWeight::clone()
clone(obj) ==
    TfIdfWeightEnums(obj.wdf_norm_, obj.idf_norm_, obj.wt_norm_,
                     obj.param_slope, obj.param_delta)

(***************************************************************************)
(* Inputs of the construction operations.                                  *)
(***************************************************************************)
Chars == {"n", "b", "s", "l", "P", "L", "t", "p", "f", NUL, "x"}

SeqsOfLen(S, n) == [1..n -> S]

\* Every string of three characters, and strings of the other lengths.
NormalsInputs ==
    SeqsOfLen(Chars, 3)
    \cup UNION {SeqsOfLen({"n", "x"}, n) : n \in 0..MaxNormalsLen}

SlopeInputs == {0 - Scale, 0, Scale \div 5, 3 * Scale}

DeltaInputs == {0, Scale}

Call(op, in, out) ==
    [op |-> op, in |-> in, out |-> out, accessed |-> {}, reads |-> {}]

NoCall == Call("none", <<>>, <<>>)

InitNoCorpus ==
    /\ w = NoObject
    /\ peer = NoObject
    /\ corpus = [termfreq |-> 1, collection_size |-> 1, wqf |-> 1,
                 wdf_upper_bound |-> 1, doclength_lower_bound |-> 1,
                 average_length |-> Scale]
    /\ wire = <<>>
    /\ init_calls = <<>>
    /\ last = NoCall

NewFromNormals ==
    /\ last.op = "none"
    /\ \E normals \in NormalsInputs, slope \in SlopeInputs, delta \in DeltaInputs :
          /\ w' = TfIdfWeightNormals(normals, slope, delta)
          /\ last' = Call("TfIdfWeight(normals,slope,delta)",
                          <<normals, slope, delta>>, <<>>)
    /\ UNCHANGED <<peer, corpus, wire, init_calls>>

NewFromNormalsDefault ==
    /\ last.op = "none"
    /\ \E normals \in NormalsInputs :
          /\ w' = TfIdfWeightNormalsDefault(normals)
          /\ last' = Call("TfIdfWeight(normals)", <<normals>>, <<>>)
    /\ UNCHANGED <<peer, corpus, wire, init_calls>>

NewFromEnums ==
    /\ last.op = "none"
    /\ \E wn \in WdfNorms, idn \in IdfNorms, wtn \in WtNorms,
          slope \in SlopeInputs, delta \in DeltaInputs :
          /\ w' = TfIdfWeightEnums(wn, idn, wtn, slope, delta)
          /\ last' = Call("TfIdfWeight(wdf,idf,wt,slope,delta)",
                          <<wn, idn, wtn, slope, delta>>, <<>>)
    /\ UNCHANGED <<peer, corpus, wire, init_calls>>

NewFromEnumsDefault ==
    /\ last.op = "none"
    /\ \E wn \in WdfNorms, idn \in IdfNorms, wtn \in WtNorms :
          /\ w' = TfIdfWeightEnumsDefault(wn, idn, wtn)
          /\ last' = Call("TfIdfWeight(wdf,idf,wt)", <<wn, idn, wtn>>, <<>>)
    /\ UNCHANGED <<peer, corpus, wire, init_calls>>

Clone ==
    /\ w.alive
    /\ ~peer.alive
    /\ peer' = clone(w)
    /\ UNCHANGED <<w, corpus, wire, init_calls, last>>

NextConstruct ==
    \/ NewFromNormals
    \/ NewFromNormalsDefault
    \/ NewFromEnums
    \/ NewFromEnumsDefault
    \/ Clone

SpecConstruct == InitNoCorpus /\ [][NextConstruct]_vars

(***************************************************************************)
(* Claims about construction.                                              *)
(***************************************************************************)
NormalsCalls == {"TfIdfWeight(normals,slope,delta)", "TfIdfWeight(normals)"}

\* The rule table of the statistic requirement negotiation.
RuleTable(wdf_variant, idf_variant) ==
    {s \in Stats :
       \/ s \in {"TERMFREQ", "COLLECTION_SIZE"} /\ idf_variant # idf_norm.NONE
       \/ s \in {"WDF", "WDF_MAX", "WQF"}
       \/ /\ s \in {"AVERAGE_LENGTH", "DOC_LENGTH", "DOC_LENGTH_MIN"}
          /\ (wdf_variant = wdf_norm.PIVOTED \/ idf_variant = idf_norm.PIVOTED)
       \/ /\ s \in {"DOC_LENGTH", "DOC_LENGTH_MIN", "DOC_LENGTH_MAX", "UNIQUE_TERMS"}
          /\ wdf_variant = wdf_norm.LOG_AVERAGE}

\* C3: on both construction paths (and for a clone) the set of statistics
\* declared needed is exactly the one the rule table gives for the config.
C3_StatsMatchRuleTable ==
    /\ w.alive => w.stats_need = RuleTable(w.wdf_norm_, w.idf_norm_)
    /\ peer.alive => peer.stats_need = RuleTable(peer.wdf_norm_, peer.idf_norm_)

C3_Witness ==
    /\ last.op \in NormalsCalls
    /\ w.alive
    /\ w.wdf_norm_ = wdf_norm.LOG_AVERAGE
    /\ w.idf_norm_ = idf_norm.PIVOTED
    /\ w.stats_need = Stats
    /\ peer.alive
    /\ peer.stats_need = Stats

\* The code strings the specification admits.
ClaimValidNormals(normals) ==
    /\ Len(normals) = 3
    /\ normals[1] \in {"n", "b", "s", "l", "P", "L"}
    /\ normals[2] \in {"n", "t", "p", "f", "s", "P"}
    /\ normals[3] = "n"

Rejected(obj) == ~obj.alive /\ obj.error = "InvalidArgumentError"

\* C4: construction fails with InvalidArgumentError, creating no instance,
\* for every code string that is not exactly three characters from the
\* allowed sets, and on both paths whenever slope <= 0 or delta <= 0.
C4_InvalidRejected ==
    /\ last.op \in NormalsCalls /\ ~ClaimValidNormals(last.in[1]) => Rejected(w)
    /\ last.op = "TfIdfWeight(normals,slope,delta)"
         /\ (last.in[2] <= 0 \/ last.in[3] <= 0) => Rejected(w)
    /\ last.op = "TfIdfWeight(wdf,idf,wt,slope,delta)"
         /\ (last.in[4] <= 0 \/ last.in[5] <= 0) => Rejected(w)

\* The character mapping of the specification.
ClaimWdfOfChar ==
    [c \in {"n", "b", "s", "l", "P", "L"} |->
       CASE c = "n" -> wdf_norm.NONE
         [] c = "b" -> wdf_norm.BOOLEAN
         [] c = "s" -> wdf_norm.SQUARE
         [] c = "l" -> wdf_norm.LOG
         [] c = "P" -> wdf_norm.PIVOTED
         [] c = "L" -> wdf_norm.LOG_AVERAGE]

ClaimIdfOfChar ==
    [c \in {"n", "t", "p", "f", "s", "P"} |->
       CASE c = "n" -> idf_norm.NONE
         [] c = "s" -> idf_norm.SQUARE
         [] c = "f" -> idf_norm.FREQ
         [] c = "P" -> idf_norm.PIVOTED
         [] c = "p" -> idf_norm.PROB
         [] c = "t" -> idf_norm.TFIDF]

\* C5: a scheme built from an accepted code string has the config and the
\* declared statistics of the scheme the enum constructor builds from the
\* variants the character mapping assigns to the string, and both paths
\* default to slope 0.2 and delta 1.0.
C5_PathsEquivalent ==
    /\ last.op = "TfIdfWeight(normals,slope,delta)" /\ w.alive
         /\ ClaimValidNormals(last.in[1])
       => w = TfIdfWeightEnums(ClaimWdfOfChar[last.in[1][1]],
                               ClaimIdfOfChar[last.in[1][2]],
                               wt_norm.NONE, last.in[2], last.in[3])
    /\ last.op = "TfIdfWeight(normals)" /\ w.alive
         /\ ClaimValidNormals(last.in[1])
       => /\ w = TfIdfWeightEnumsDefault(ClaimWdfOfChar[last.in[1][1]],
                                         ClaimIdfOfChar[last.in[1][2]],
                                         wt_norm.NONE)
          /\ 10 * w.param_slope = 2 * Scale
          /\ w.param_delta = Scale
    /\ last.op = "TfIdfWeight(wdf,idf,wt)" /\ w.alive
       => /\ 10 * w.param_slope = 2 * Scale
          /\ w.param_delta = Scale
          /\ w = TfIdfWeightEnums(last.in[1], last.in[2], last.in[3],
                                  w.param_slope, w.param_delta)

C5_Witness ==
    /\ last.op = "TfIdfWeight(normals)"
    /\ last.in[1] = <<"L", "p", "n">>
    /\ w.alive
    /\ w.wdf_norm_ = wdf_norm.LOG_AVERAGE
    /\ w.idf_norm_ = idf_norm.PROB
    /\ 10 * w.param_slope = 2 * Scale

(***************************************************************************)
(* Serialisation.                                                          *)
(***************************************************************************)
RECURSIVE EncodeBE(_, _)
EncodeBE(v, n) ==
    IF n = 0 THEN <<>> ELSE Append(EncodeBE(v \div 256, n - 1), v % 256)

RECURSIVE DecodeBE(_, _, _)
DecodeBE(s, ptr, n) ==
    IF n = 0 THEN 0 ELSE 256 * DecodeBE(s, ptr, n - 1) + s[ptr + n - 1]

\* serialise_double(v): the canonical encoding of a double, DoubleWidth bytes.
serialise_double(v) == EncodeBE(v, DoubleWidth)

\* unserialise_double(&ptr, end): the double at ptr and the advanced ptr, or
\* SerialisationError when fewer than DoubleWidth bytes are left.
unserialise_double(s, ptr) ==
    IF Len(s) + 1 - ptr < DoubleWidth
    THEN [ok |-> FALSE, value |-> 0, ptr |-> ptr]
    ELSE [ok |-> TRUE, value |-> DecodeBE(s, ptr, DoubleWidth),
          ptr |-> ptr + DoubleWidth]

\* serialise with the idf tag written before the wdf tag.
serialiseTagsSwapped(obj) ==
    serialise_double(obj.param_slope) \o serialise_double(obj.param_delta)
    \o <<obj.idf_norm_, obj.wdf_norm_, obj.wt_norm_>>

\* TfIdfWeight::serialise()
serialise(obj) ==
    serialise_double(obj.param_slope) \o serialise_double(obj.param_delta)
    \o <<obj.wdf_norm_, obj.idf_norm_, obj.wt_norm_>>

ByteInputs == {0, 1, 200}

Crashed == [alive |-> FALSE, error |-> "crash"]

\* *(ptr)++ on the buffer of the std::string s, end = Len(s) + 1: a byte of
\* the string, the terminating NUL at end, or, beyond end, an out-of-bounds
\* read that yields any byte.
ReadChar(s, ptr) ==
    IF ptr <= Len(s) THEN {s[ptr]}
    ELSE IF ptr = Len(s) + 1 THEN {0}
    ELSE ByteInputs

\* TfIdfWeight::unserialise(s): the outcomes the call can have, each with the
\* positions at which a tag byte was read.  A read beyond the terminating NUL
\* is undefined behaviour: it yields any byte, or the process crashes.
unserialise(s) ==
    LET end == Len(s) + 1
        d1 == unserialise_double(s, 1)
        d2 == unserialise_double(s, d1.ptr)
        ptr == d2.ptr
        reads == {ptr, ptr + 1, ptr + 2}
    IN  IF ~d1.ok \/ ~d2.ok
        THEN {[result |-> Throw("SerialisationError"), reads |-> {}]}
        ELSE (IF ptr + 2 > end
              THEN {[result |-> Crashed, reads |-> reads]} ELSE {})
             \cup
             {[result |-> IF ptr + 3 # end
                          THEN Throw("SerialisationError")
                          ELSE TfIdfWeightEnums(a, b, c, d1.value, d2.value),
               reads |-> reads] :
                a \in ReadChar(s, ptr), b \in ReadChar(s, ptr + 1),
                c \in ReadChar(s, ptr + 2)}

WireInputs ==
    UNION {SeqsOfLen(ByteInputs, n) : n \in 0..(2 * DoubleWidth + 3 + MaxTrailing)}

CtorCalls ==
    {"TfIdfWeight(normals,slope,delta)", "TfIdfWeight(normals)",
     "TfIdfWeight(wdf,idf,wt,slope,delta)", "TfIdfWeight(wdf,idf,wt)"}

\* serialise() on the constructed object or on its clone.
Serialise ==
    /\ last.op \in CtorCalls
    /\ \E obj \in {w, peer} :
          /\ obj.alive
          /\ wire' = serialise(obj)
          /\ last' = Call("serialise", obj, serialise(obj))
    /\ UNCHANGED <<w, peer, corpus, init_calls>>

\* Bytes that arrive from a remote node.
Receive ==
    /\ last.op = "none"
    /\ \E s \in WireInputs :
          /\ wire' = s
          /\ last' = Call("receive", NoObject, s)
    /\ UNCHANGED <<w, peer, corpus, init_calls>>

Unserialise ==
    /\ last.op \in {"serialise", "receive"}
    /\ \E o \in unserialise(wire) :
          /\ peer' = o.result
          /\ last' = [Call("unserialise", <<wire, last.in>>, o.result)
                        EXCEPT !.reads = o.reads]
    /\ UNCHANGED <<w, corpus, wire, init_calls>>

NextCodec ==
    \/ NewFromNormalsDefault
    \/ NewFromEnums
    \/ Clone
    \/ Serialise
    \/ Receive
    \/ Unserialise

SpecCodec == InitNoCorpus /\ [][NextCodec]_vars

(***************************************************************************)
(* Claims about serialisation.                                             *)
(***************************************************************************)
Config(obj) ==
    <<obj.param_slope, obj.param_delta, obj.wdf_norm_, obj.idf_norm_,
      obj.wt_norm_>>

\* C6: unserialising the serialisation of a valid scheme succeeds and gives
\* a scheme with the same slope, delta, wdf, idf and wt variants, whose own
\* serialisation is the same byte sequence.
C6_RoundTrip ==
    last.op = "unserialise" /\ last.in[2].alive
    => /\ peer.alive
       /\ Config(peer) = Config(last.in[2])
       /\ serialise(peer) = last.in[1]

C6_Witness ==
    /\ last.op = "unserialise"
    /\ last.in[2].alive
    /\ last.in[2].wdf_norm_ = wdf_norm.PIVOTED
    /\ last.in[2].idf_norm_ = idf_norm.PROB
    /\ last.in[2].param_slope = 3 * Scale
    /\ peer.alive
    /\ peer.wdf_norm_ = wdf_norm.PIVOTED

LayoutLen == 2 * DoubleWidth + 3

\* C7: unserialise fails with SerialisationError, returning no object, for
\* every byte string longer than the layout (trailing bytes) and for every
\* byte string shorter than it (truncated).
C7_MalformedRejected ==
    last.op = "unserialise" /\ Len(last.in[1]) # LayoutLen
    => ~peer.alive /\ peer.error = "SerialisationError"

\* C10: every tag byte that unserialise reads lies strictly before the end
\* of its input.
C10_ReadsInBounds ==
    last.op = "unserialise" => \A p \in last.reads : p <= Len(last.in[1])

(***************************************************************************)
(* Scoring.  `stats` holds what the accessors of Xapian::Weight return.    *)
(***************************************************************************)
\* The values a read of a double member can yield.
Indeterminate == {0 - Scale, 0, Scale}

Read(member) == IF member = <<>> THEN Indeterminate ELSE {member[1]}

\* TfIdfWeight::get_wdfn
get_wdfn(obj, stats, wdf, doclen, uniqterms, wdf_normalization) ==
    CASE wdf_normalization = wdf_norm.BOOLEAN ->
           IF wdf = 0 THEN 0 ELSE Scale
      [] wdf_normalization = wdf_norm.SQUARE ->
           TermcountToDouble(MulTermcount(wdf, wdf))
      [] wdf_normalization = wdf_norm.LOG ->
           IF wdf = 0 THEN 0 ELSE Scale + Ln(ToDouble(wdf))
      [] wdf_normalization = wdf_norm.PIVOTED ->
           IF wdf = 0 THEN 0
           ELSE LET normlen == FDiv(ToDouble(doclen), stats.average_length)
                    norm_factor ==
                        FDiv(Scale, Scale - obj.param_slope
                                      + FMul(obj.param_slope, normlen))
                IN  FMul(Scale + Ln(Scale + Ln(ToDouble(wdf))), norm_factor)
                    + obj.param_delta
      [] wdf_normalization = wdf_norm.LOG_AVERAGE ->
           IF wdf = 0 THEN 0
           ELSE LET uniqterm_double == ToDouble(uniqterms)
                    doclen_double == ToDouble(doclen)
                    wdf_avg == IF doclen_double = 0 \/ uniqterm_double = 0
                               THEN Scale
                               ELSE FDiv(doclen_double, uniqterm_double)
                    num == Scale + Ln(ToDouble(wdf))
                    den == Scale + Ln(wdf_avg)
                IN  FDiv(num, den)
      [] OTHER -> ToDouble(wdf)

\* The accessors get_wdfn calls.
get_wdfn_accessed(wdf, wdf_normalization) ==
    IF wdf_normalization = wdf_norm.PIVOTED /\ wdf # 0
    THEN {"AVERAGE_LENGTH"} ELSE {}

\* The per-document statistics get_wdfn reads from its parameters wdf,
\* doclen and uniqterms.
get_wdfn_params(wdf, wdf_normalization) ==
    {"WDF"}
    \cup (IF wdf_normalization = wdf_norm.PIVOTED /\ wdf # 0
          THEN {"DOC_LENGTH"} ELSE {})
    \cup (IF wdf_normalization = wdf_norm.LOG_AVERAGE /\ wdf # 0
          THEN {"DOC_LENGTH", "UNIQUE_TERMS"} ELSE {})

\* TfIdfWeight::get_idfn
get_idfn(stats, idf_normalization) ==
    LET termfreq == IF idf_normalization # idf_norm.NONE
                    THEN stats.termfreq ELSE 1
        N == IF idf_normalization # idf_norm.NONE
                /\ idf_normalization # idf_norm.FREQ
             THEN ToDouble(stats.collection_size) ELSE Scale
    IN  CASE idf_normalization = idf_norm.NONE -> Scale
          [] idf_normalization = idf_norm.PROB ->
               IF N = ToDouble(termfreq) THEN 0
               ELSE Ln(FDiv(N - ToDouble(termfreq), ToDouble(termfreq)))
          [] idf_normalization = idf_norm.FREQ ->
               FDiv(Scale, ToDouble(termfreq))
          [] idf_normalization = idf_norm.SQUARE ->
               LET l == Ln(FDiv(N, ToDouble(termfreq))) IN FMul(l, l)
          [] idf_normalization = idf_norm.PIVOTED ->
               Ln(FDiv(N + Scale, ToDouble(termfreq)))
          [] OTHER -> Ln(FDiv(N, ToDouble(termfreq)))

\* The accessors get_idfn calls.
get_idfn_accessed(idf_normalization) ==
    (IF idf_normalization # idf_norm.NONE THEN {"TERMFREQ"} ELSE {})
    \cup (IF idf_normalization # idf_norm.NONE
             /\ idf_normalization # idf_norm.FREQ
          THEN {"COLLECTION_SIZE"} ELSE {})

\* TfIdfWeight::get_wtn
get_wtn(wt, wt_normalization) == wt

\* TfIdfWeight::init(factor_): the object after the call.
init(obj, stats, factor_) ==
    IF factor_ = 0 THEN obj
    ELSE [obj EXCEPT !.wqf_factor = <<stats.wqf * factor_>>,
                     !.idfn = <<get_idfn(stats, obj.idf_norm_)>>]

\* The accessors init calls.
init_accessed(obj, factor_) ==
    IF factor_ = 0 THEN {} ELSE {"WQF"} \cup get_idfn_accessed(obj.idf_norm_)

\* TfIdfWeight::get_sumpart: the values the call can return.
get_sumpart(obj, stats, wdf, doclen, uniqterms) ==
    LET wdfn == get_wdfn(obj, stats, wdf, doclen, uniqterms, obj.wdf_norm_)
    IN  {FMul(get_wtn(FMul(wdfn, idfn), obj.wt_norm_), wqf_factor) :
            idfn \in Read(obj.idfn), wqf_factor \in Read(obj.wqf_factor)}

\* The statistics get_sumpart reads: those of its parameters that get_wdfn
\* uses, and the accessors get_wdfn calls.
get_sumpart_accessed(obj, wdf) ==
    get_wdfn_params(wdf, obj.wdf_norm_) \cup get_wdfn_accessed(wdf, obj.wdf_norm_)

\* TfIdfWeight::get_maxpart: the values the call can return.
get_maxpart(obj, stats) ==
    LET wdf_max == stats.wdf_upper_bound
        len_min == stats.doclength_lower_bound
        wdfn == get_wdfn(obj, stats, wdf_max, len_min, len_min, obj.wdf_norm_)
    IN  {FMul(get_wtn(FMul(wdfn, idfn), obj.wt_norm_), wqf_factor) :
            idfn \in Read(obj.idfn), wqf_factor \in Read(obj.wqf_factor)}

\* The accessors get_maxpart calls.
get_maxpart_accessed(obj, stats) ==
    {"WDF_MAX", "DOC_LENGTH_MIN"}
    \cup get_wdfn_accessed(stats.wdf_upper_bound, obj.wdf_norm_)

(***************************************************************************)
(* The scoring operations on one query term of a corpus.                   *)
(***************************************************************************)
CorpusInputs ==
    [termfreq : 1..MaxCollectionSize,
     collection_size : {MaxCollectionSize},
     wqf : 1..MaxWqf,
     wdf_upper_bound : {MaxWdf},
     doclength_lower_bound : 1..2,
     average_length : {2 * Scale, 4 * Scale}]

FactorInputs == {0, Scale \div 2, Scale}

InitCorpus ==
    /\ w = NoObject
    /\ peer = NoObject
    /\ corpus \in CorpusInputs
    /\ wire = <<>>
    /\ init_calls = <<>>
    /\ last = NoCall

\* The explicit-enum constructor with valid parameters.
NewScheme ==
    /\ last.op = "none"
    /\ \E wn \in WdfNorms, idn \in IdfNorms, slope \in {Scale \div 5, 3 * Scale} :
          /\ w' = TfIdfWeightEnums(wn, idn, wt_norm.NONE, slope, Scale)
          /\ last' = Call("TfIdfWeight(wdf,idf,wt,slope,delta)",
                          <<wn, idn, wt_norm.NONE, slope, Scale>>, <<>>)
    /\ UNCHANGED <<peer, corpus, wire, init_calls>>

\* The executor works on a clone of the scheme it was given.
UseClone ==
    /\ last.op \in CtorCalls
    /\ w.alive
    /\ w' = clone(w)
    /\ last' = Call("clone", <<>>, <<>>)
    /\ UNCHANGED <<peer, corpus, wire, init_calls>>

CallInit ==
    /\ w.alive
    /\ Len(init_calls) < MaxInits
    /\ \E factor_ \in FactorInputs :
          /\ w' = init(w, corpus, factor_)
          /\ init_calls' = Append(init_calls, factor_)
          /\ last' = [Call("init", factor_, <<>>)
                        EXCEPT !.accessed = init_accessed(w, factor_)]
    /\ UNCHANGED <<peer, corpus, wire>>

\* A posting of the term: wdf, document length and unique terms within the
\* bounds the corpus declares.
Postings ==
    {p \in (0..corpus.wdf_upper_bound)
             \X (corpus.doclength_lower_bound..MaxDocLen) \X (1..MaxDocLen) :
        p[1] <= p[2] /\ p[3] <= p[2]}

\* get_sumpart and get_maxpart leave the object as it is, so one call of each
\* after init reaches every result a longer sequence of calls reaches.
CallGetSumpart ==
    /\ w.alive
    /\ last.op \in {"init", "get_maxpart"}
    /\ \E p \in Postings :
         \E r \in get_sumpart(w, corpus, p[1], p[2], p[3]) :
            last' = [Call("get_sumpart", p, r)
                       EXCEPT !.accessed = get_sumpart_accessed(w, p[1])]
    /\ UNCHANGED <<w, peer, corpus, wire, init_calls>>

CallGetMaxpart ==
    /\ w.alive
    /\ last.op = "init"
    /\ \E r \in get_maxpart(w, corpus) :
          last' = [Call("get_maxpart", <<>>, r)
                     EXCEPT !.accessed = get_maxpart_accessed(w, corpus)]
    /\ UNCHANGED <<w, peer, corpus, wire, init_calls>>

NextScore ==
    \/ NewScheme
    \/ UseClone
    \/ CallInit
    \/ CallGetSumpart
    \/ CallGetMaxpart

SpecScore == InitCorpus /\ [][NextScore]_vars

(***************************************************************************)
(* Claims about scoring.                                                   *)
(***************************************************************************)
\* C1: after init(factor) with factor # 0, get_maxpart() is at least
\* get_sumpart(wdf, doclen, unique_terms) for every posting within the
\* bounds of the corpus.
C1_MaxpartBoundsSumpart ==
    last.op = "get_sumpart" /\ init_calls # <<>>
        /\ (\A i \in 1..Len(init_calls) : init_calls[i] # 0)
    => \A m \in get_maxpart(w, corpus) : m >= last.out

\* The statistics some call of init, get_sumpart or get_maxpart reads, through
\* an accessor or as a per-document argument, for the config of obj.
AccessedForConfig(obj, stats) ==
    UNION {init_accessed(obj, f) : f \in FactorInputs}
    \cup UNION {get_sumpart_accessed(obj, wdf) : wdf \in 0..stats.wdf_upper_bound}
    \cup get_maxpart_accessed(obj, stats)

\* C2: a statistic is declared needed if and only if some operation reads
\* it, and no operation calls the accessor of a statistic that was not
\* declared needed.
C2_NeededIffAccessed ==
    /\ last.op \in {"init", "get_sumpart", "get_maxpart"}
       => last.accessed \subseteq w.stats_need
    /\ w.alive => w.stats_need = AccessedForConfig(w, corpus)

\* C8: when the only init call was init(0.0), the runtime state is as
\* constructed and get_sumpart returns 0 for every posting.
C8_InitZeroScoresZero ==
    init_calls = <<0>>
    => /\ w.wqf_factor = <<>> /\ w.idfn = <<>>
       /\ last.op = "get_sumpart" => last.out = 0

(***************************************************************************)
(* The wdf normalisation over the range of Xapian::termcount.              *)
(***************************************************************************)
\* Within-document frequencies up to MaxWdf, and large ones on both sides of
\* 2^16, where the square of a termcount no longer fits 32 bits.
WdfInputs == (0..MaxWdf) \cup {1465, 65536, 65537, 65552}

CallGetWdfn ==
    /\ w.alive
    /\ last.op \in CtorCalls
    /\ \E wdf \in WdfInputs :
         \E doclen \in {wdf, wdf + 1} \ {0} :
           \E uniqterms \in {1, doclen} :
              last' = [Call("get_wdfn", <<wdf, doclen, uniqterms>>,
                            get_wdfn(w, corpus, wdf, doclen, uniqterms,
                                     w.wdf_norm_))
                         EXCEPT !.accessed = get_wdfn_accessed(wdf, w.wdf_norm_)]
    /\ UNCHANGED <<w, peer, corpus, wire, init_calls>>

NextWdfn ==
    \/ NewScheme
    \/ CallGetWdfn

SpecWdfn == InitCorpus /\ [][NextWdfn]_vars

\* C9: with the Square variant get_wdfn returns wdf * wdf for every wdf of
\* the 32-bit term-count type, and so never less than for a smaller wdf.
C9_SquareIsExact ==
    last.op = "get_wdfn" /\ w.wdf_norm_ = wdf_norm.SQUARE
    => /\ last.in[1] = 0 => last.out = 0
       /\ last.in[1] > 0 => /\ last.out % last.in[1] = 0
                            /\ last.out \div last.in[1] = ToDouble(last.in[1])
       /\ \A small \in 0..MaxWdf :
             small <= last.in[1]
             => get_wdfn(w, corpus, small, small, 1, w.wdf_norm_) <= last.out

====
